---- MODULE Spec2Model ----
(***************************************************************************)
(* OpenPubkey client: construction of an OpkClient (client.New), the       *)
(* authentication flow (OpkClient.Auth / OpkClient.OidcAuth) and the       *)
(* package-level PK Token verification helper (VerifyPKToken), the claim   *)
(* decoders (ExtractClaim, OidcClaims.UnmarshalJSON), DiscoverPublicKey    *)
(* and the redirect-URI channel of concurrent Auth calls.                  *)
(*                                                                         *)
(* Calls into libraries that are not part of the sources (jwk, jws, gq,    *)
(* pktoken, memguard, the OP, the cosigner) are modelled by their          *)
(* outcome: each call site picks one of the results the callee can give.   *)
(***************************************************************************)
EXTENDS Integers, Sequences, FiniteSets, TLC

VARIABLES
    newArgs,    \* the options the caller gave to New
    client,     \* the OpkClient object, NoClient before construction
    newErr,     \* error returned by New ("nil" when none)
    pc,         \* position of the calling task in Auth / OidcAuth
    entry,      \* which exported method the caller invoked
    frame,      \* local variables of the running OidcAuth call
    bufs,       \* memguard.LockedBuffer objects allocated so far
    deferred,   \* buffers whose Destroy() is deferred in OidcAuth
    trace,      \* calls made so far in this Auth call, with their outcome
    hooked,     \* handler registered through HookHTTPSession
    oidcRet,    \* (pkt, err) returned by OidcAuth
    authRet,    \* (pkt, err) returned by Auth
    verifyArg,  \* arguments of the o.verifier.VerifyPKToken call
    cosArg,     \* PK Token handed to cosP.RequestToken
    vpc,        \* position inside the VerifyPKToken helper
    vin,        \* arguments of the VerifyPKToken helper: token and provider
    vloc,       \* local variables of VerifyPKToken
    vlog,       \* calls made so far by VerifyPKToken
    vret,       \* error returned by VerifyPKToken ("pending" while running)
    xpc,        \* which claim decoder was called: ExtractClaim or UnmarshalJSON
    xin,        \* its arguments: the payload and the claim name
    xout,       \* what it returned
    dpc,        \* position inside DiscoverPublicKey
    din,        \* arguments of DiscoverPublicKey: kid of the headers, issuer
    dloc,       \* local variables of DiscoverPublicKey
    dlog,       \* calls made so far by DiscoverPublicKey
    dret,       \* (key, err) returned by DiscoverPublicKey
    hpc,        \* per client: position of its Auth call
    hcl,        \* per client: the fields of its OpkClient
    hopts,      \* per client: the authOpts of its Auth call
    chans,      \* per channel: the redirect URIs buffered in it
    hook,       \* per OP object: the handler registered by HookHTTPSession
    inv,        \* per OP object: the invocations of its handler
    sent,       \* per client: the URIs its cosigner put on the channel
    hlog,       \* per client: the calls its Auth has made
    hres        \* per client: (pkt, err) returned by Auth

cvars == <<newArgs, client, newErr, pc, entry, frame, bufs, deferred, trace, hooked,
           oidcRet, authRet, verifyArg, cosArg>>
vvars == <<vpc, vin, vloc, vlog, vret>>
xvars == <<xpc, xin, xout>>
dvars == <<dpc, din, dloc, dlog, dret>>
hvars == <<hpc, hcl, hopts, chans, hook, inv, sent, hlog, hres>>

uvars == <<xvars, dvars, hvars>>
vars == <<cvars, vvars, uvars>>

-----------------------------------------------------------------------------
(* Bounds                                                                  *)

\* number of distinct rz salts clientinstance.NewClaims may draw
MaxSalt == 2
\* number of LockedBuffer objects one OidcAuth call can allocate
MaxBufs == 2

-----------------------------------------------------------------------------
(* Values                                                                  *)

Nil == [nil |-> TRUE]

OpIssuer == "https://op.example"
EvilIssuer == "https://evil"
CosIssuer == "https://cosigner.example"

\* OpenIdProvider implementations handed to New: browser is TRUE when the
\* object also implements BrowserOpenIdProvider
Ops == { [issuer |-> OpIssuer, commitmentClaim |-> "nonce", browser |-> b] :
            b \in BOOLEAN }

CosignerProviders == { [Issuer |-> CosIssuer] }

\* values of the verifier field
NilVerifier == [kind |-> "nil", issuer |-> "", commitmentClaim |-> "",
                cosigners |-> {}]
CustomVerifier == [kind |-> "custom", issuer |-> "", commitmentClaim |-> "",
                   cosigners |-> {}]

NewProviderVerifier(issuer, commitmentClaim) ==
    [issuer |-> issuer, commitmentClaim |-> commitmentClaim]

NewCosignerVerifier(issuer) == issuer

\* verifier.New(providerVerifier, WithCosignerVerifiers(...))
VerifierNew(providerVerifier, cosignerVerifiers) ==
    [kind |-> "default", issuer |-> providerVerifier.issuer,
     commitmentClaim |-> providerVerifier.commitmentClaim,
     cosigners |-> cosignerVerifiers]

NoClient == [constructed |-> FALSE]

\* the distinct clients that call Auth concurrently, each with an OP object
\* of its own
Clients == {"c1", "c2"}

\* the (signer, alg) pairs a caller gives to WithSigner; set is FALSE when the
\* option is not used
SignerOpts == { [set |-> FALSE, signer |-> "nil", alg |-> "nil"],
                [set |-> TRUE, signer |-> "callerKey", alg |-> "ES256"],
                [set |-> TRUE, signer |-> "callerKey", alg |-> "nil"],
                [set |-> TRUE, signer |-> "nil", alg |-> "RS256"] }


\* the key pair util.GenKeyPair makes for an alg
GeneratedKey(alg) ==
    CASE alg = "ES256" -> "generatedES256Key"
      [] alg = "RS256" -> "generatedRS256Key"
      [] OTHER -> "generatedKey"

\* util.GenKeyPair(alg): a fresh key pair for alg, or an error
GenKeyPair(alg, genOk) ==
    IF genOk THEN [signer |-> GeneratedKey(alg), err |-> "nil"]
             ELSE [signer |-> "nil", err |-> "failed to create key pair for client"]

\* client.go:139-145, the verifier New leaves in the client
InstallVerifier(c, op) ==
    LET providerVerifier == NewProviderVerifier(op.issuer, op.commitmentClaim)
        c1 == IF c.cosP # Nil
              THEN [c EXCEPT !.verifier =
                      VerifierNew(providerVerifier,
                                  {NewCosignerVerifier(c.cosP.Issuer)})]
              ELSE c
    IN  [c1 EXCEPT !.verifier = VerifierNew(providerVerifier, {})]

\* variant of DefaultAlg: the alg is left as the options set it
DefaultAlgUnset(alg) == alg

\* client.go:128-130, the alg a key pair is generated for
DefaultAlg(alg) == IF alg = "nil" THEN "ES256" ELSE alg

\* client.go:110-148. The result is the pair (client, err) New returns.
NewResult(op, signerOpt, signGQ, cosP, customVerifier, genOk) ==
    LET c0 == [constructed |-> TRUE, viaNew |-> TRUE, Op |-> op, cosP |-> Nil,
               signer |-> "nil", alg |-> "nil", signGQ |-> FALSE,
               verifier |-> NilVerifier]
        \* for _, applyOpt := range opts { applyOpt(client) }
        c1 == [c0 EXCEPT !.signer = signerOpt.signer, !.alg = signerOpt.alg,
                         !.signGQ = signGQ, !.cosP = cosP,
                         !.verifier = customVerifier]
    IN  IF c1.alg = "nil" /\ c1.signer # "nil"
        THEN [client |-> NoClient,
              err |-> "signer specified but alg is nil, must specify alg of signer"]
        ELSE IF c1.signer = "nil"
        THEN LET c2 == [c1 EXCEPT !.alg = DefaultAlg(c1.alg)]
                 kp == GenKeyPair(c2.alg, genOk)
             IN  IF kp.err # "nil"
                 THEN [client |-> NoClient, err |-> kp.err]
                 ELSE [client |-> InstallVerifier([c2 EXCEPT !.signer = kp.signer], op),
                       err |-> "nil"]
        ELSE [client |-> InstallVerifier(c1, op), err |-> "nil"]


-----------------------------------------------------------------------------
(* Data handled by OidcAuth                                                *)

Salts == 1..MaxSalt
BufIds == 1..MaxBufs

\* clientinstance.NewClaims: the CIC with a fresh rz
Cics == { [upk |-> "upk", rz |-> r] : r \in Salts }

\* cic.Hash()
CicHash(cic) == <<"sha256", cic>>

\* The bytes RequestTokens can hand back for a commitment: a compact RS256 JWS
\* from the OP (whatever iss it names), a JWS whose payload does not decode
\* into the iss struct, or bytes that are no JWS at all.
IdTokens(commitment) ==
    { [form |-> f, alg |-> "RS256", kid |-> "kid1", iss |-> i,
       commit |-> commitment, sig |-> "RSA", origHdr |-> "none"] :
         f \in {"jws"}, i \in {OpIssuer, EvilIssuer} }
    \cup
    { [form |-> f, alg |-> "RS256", kid |-> "kid1", iss |-> OpIssuer,
       commit |-> commitment, sig |-> "RSA", origHdr |-> "none"] :
         f \in {"badpayload", "garbage"} }

\* jws.Parse(idToken.Bytes())
JwsParseOk(tok) == tok.form # "garbage"

\* json.Unmarshal(idMessage.Payload(), &claims)
UnmarshalOk(tok) == tok.form = "jws"

\* sv.SignJWT: same payload, alg rewritten to GQ256, the RSA signature
\* replaced by the GQ proof that embeds the original header
GQSignJWT(tok) ==
    [tok EXCEPT !.alg = "GQ256", !.sig = "GQ", !.origHdr = tok.alg]

\* the payload section of a compact token
Payload(tok) == [iss |-> tok.iss, commit |-> tok.commit]

\* cic.Sign(signer, alg, idToken.Bytes()): the compact JWS
\* b64(cic_hdr).b64(payload).b64(sig)
CicSign(cic, signer, alg, tok) ==
    [cic |-> cic, alg |-> alg, signer |-> signer, payload |-> Payload(tok)]

\* pktoken.New(idToken.Bytes(), cicToken)
PktNew(tok, cicToken) ==
    [op |-> tok, cic |-> cicToken, jkt |-> "none", cos |-> "none"]

\* pkt.AddJKTHeader(opKey)
AddJKTHeader(pkt, opKey) == [pkt EXCEPT !.jkt = opKey]

\* the PK Token with the cosigner's section attached by cosP.RequestToken
Cosigned(pkt, cosP) == [pkt EXCEPT !.cos = cosP.Issuer]

\* memguard.LockedBuffer
NoBuffer == [state |-> "unallocated", data |-> Nil]
LiveBuffer(data) == [state |-> "live", data |-> data]

\* LockedBuffer.Destroy(): wipes and frees the buffer
Destroy(b) == [state |-> "destroyed", data |-> Nil]

\* the buffer object the next allocation creates
FreshBuf(bs) == CHOOSE i \in BufIds :
                    /\ bs[i].state = "unallocated"
                    /\ \A j \in BufIds : bs[j].state = "unallocated" => i <= j

EmptyFrame ==
    [signer |-> "nil", alg |-> "nil", signGQ |-> FALSE, cic |-> Nil,
     commitment |-> Nil, idToken |-> 0, cicToken |-> Nil, kid |-> "",
     claimsIssuer |-> "", opKey |-> "nil", verifierChecks |-> {}, pkt |-> Nil]

Pending == [pkt |-> Nil, err |-> "pending"]


-----------------------------------------------------------------------------
(* Construction                                                            *)

Init ==
    /\ newArgs = Nil
    /\ client = NoClient
    /\ newErr = "nil"
    /\ pc = "start"
    /\ entry = "none"
    /\ frame = EmptyFrame
    /\ bufs = [i \in BufIds |-> NoBuffer]
    /\ deferred = {}
    /\ trace = <<>>
    /\ hooked = FALSE
    /\ oidcRet = Pending
    /\ authRet = Pending
    /\ verifyArg = Nil
    /\ cosArg = Nil
    /\ vpc = "start"
    /\ vin = Nil
    /\ vloc = Nil
    /\ vlog = <<>>
    /\ vret = "pending"
    /\ xpc = "start"
    /\ xin = Nil
    /\ xout = Nil
    /\ dpc = "start"
    /\ din = Nil
    /\ dloc = Nil
    /\ dlog = <<>>
    /\ dret = [key |-> Nil, err |-> "pending"]
    /\ hpc = [p \in Clients |-> "none"]
    /\ hcl = [p \in Clients |-> Nil]
    /\ hopts = [p \in Clients |-> Nil]
    /\ chans = [p \in Clients |-> <<>>]
    /\ hook = [p \in Clients |-> Nil]
    /\ inv = [p \in Clients |-> <<>>]
    /\ sent = [p \in Clients |-> <<>>]
    /\ hlog = [p \in Clients |-> <<>>]
    /\ hres = [p \in Clients |-> [pkt |-> "nil", err |-> "pending"]]

\* client.go:110-148, client.New(op, opts...)
New ==
    /\ pc = "start"
    /\ \E op \in Ops, signerOpt \in SignerOpts, signGQ \in BOOLEAN,
          cosP \in {Nil} \cup CosignerProviders,
          customVerifier \in {NilVerifier, CustomVerifier}, genOk \in BOOLEAN :
         LET r == NewResult(op, signerOpt, signGQ, cosP, customVerifier, genOk)
         IN  /\ newArgs' = [op |-> op, signerOpt |-> signerOpt, signGQ |-> signGQ,
                            cosP |-> cosP, customVerifier |-> customVerifier,
                            genOk |-> genOk]
             /\ client' = r.client
             /\ newErr' = r.err
             /\ pc' = IF r.err = "nil" THEN "ready" ELSE "noclient"
    /\ UNCHANGED <<entry, frame, bufs, deferred, trace, hooked, oidcRet,
                   authRet, verifyArg, cosArg, vvars, uvars>>

\* part_000:49-59, an OpkClient written as a struct literal: only Op is set
Literal ==
    /\ pc = "start"
    /\ \E op \in Ops :
         client' = [constructed |-> TRUE, viaNew |-> FALSE, Op |-> op,
                    cosP |-> Nil, signer |-> "nil", alg |-> "nil",
                    signGQ |-> FALSE, verifier |-> NilVerifier]
    /\ pc' = "ready"
    /\ UNCHANGED <<newArgs, newErr, entry, frame, bufs, deferred, trace, hooked,
                   oidcRet, authRet, verifyArg, cosArg, vvars, uvars>>

-----------------------------------------------------------------------------
(* Auth                                                                    *)

\* a call and its outcome, appended to the record of this Auth call
\* (arg: the argument the properties refer to, res: the value returned)
CalledWith(call, arg, res, ok) ==
    trace' = Append(trace, [call |-> call, arg |-> arg, res |-> res, ok |-> ok])

Called(call, ok) == CalledWith(call, Nil, Nil, ok)

\* the frame of o.OidcAuth(ctx, signer, alg, extraClaims, signGQ)
CallFrame(signer, alg, signGQ) ==
    [EmptyFrame EXCEPT !.signer = signer, !.alg = alg, !.signGQ = signGQ]

\* variant of IsBrowserOp: the capability check is not made
IsBrowserOpUnchecked(op) == TRUE

\* client.go:189, o.Op.(BrowserOpenIdProvider)
IsBrowserOp(op) == op.browser

\* client.go:175-199, Auth up to the call of OidcAuth
Auth ==
    /\ pc = "ready"
    /\ entry' = "Auth"
    /\ IF client.cosP = Nil
       THEN /\ frame' = CallFrame(client.signer, client.alg, client.signGQ)
            /\ pc' = "PublicKeyOf"
            /\ UNCHANGED <<hooked, authRet, trace>>
       ELSE IF ~IsBrowserOp(client.Op)
       THEN /\ authRet' = [pkt |-> Nil,
                           err |-> "OP supplied does not have support for MFA Cosigner"]
            /\ pc' = "done"
            /\ UNCHANGED <<hooked, frame, trace>>
       ELSE /\ hooked' = TRUE
            /\ Called("HookHTTPSession", TRUE)
            /\ frame' = CallFrame(client.signer, client.alg, client.signGQ)
            /\ pc' = "PublicKeyOf"
            /\ UNCHANGED authRet
    /\ UNCHANGED <<newArgs, client, newErr, bufs, deferred, oidcRet,
                   verifyArg, cosArg, vvars, uvars>>

\* part_000:61, OidcAuth called directly with the caller's own key
DirectOidcAuth ==
    /\ pc = "ready"
    /\ entry' = "OidcAuth"
    /\ \E signGQ \in BOOLEAN :
         frame' = CallFrame("callerKey", "ES256", signGQ)
    /\ pc' = "PublicKeyOf"
    /\ UNCHANGED <<newArgs, client, newErr, bufs, deferred, trace, hooked,
                   oidcRet, authRet, verifyArg, cosArg, vvars, uvars>>


-----------------------------------------------------------------------------
(* OidcAuth, client.go:208-310                                             *)

\* the deferred idToken.Destroy() calls, run when OidcAuth is left
RunDeferred(bs, d) == [i \in BufIds |-> IF i \in d THEN Destroy(bs[i]) ELSE bs[i]]

\* where control goes when OidcAuth returns
AfterOidcAuth == IF entry = "Auth" THEN "AuthResume" ELSE "done"

\* return pkt, err
ReturnOidc(pkt, err) ==
    /\ oidcRet' = [pkt |-> pkt, err |-> err]
    /\ bufs' = RunDeferred(bufs, deferred)
    /\ deferred' = {}
    /\ pc' = AfterOidcAuth

\* the call succeeded: go on with the next statement
Continue(next) ==
    /\ pc' = next
    /\ UNCHANGED <<oidcRet, bufs, deferred>>

\* client.go:219-222, jwk.PublicKeyOf(signer)
PublicKeyOf ==
    /\ pc = "PublicKeyOf"
    /\ \E ok \in IF frame.signer = "nil" THEN {FALSE} ELSE BOOLEAN :
         /\ Called("PublicKeyOf", ok)
         /\ IF ok THEN Continue("SetAlg")
                  ELSE ReturnOidc(Nil, "jwk.PublicKeyOf failed")
    /\ UNCHANGED <<newArgs, client, newErr, entry, frame, hooked, authRet,
                   verifyArg, cosArg, vvars, uvars>>

\* client.go:223-226, jwkKey.Set(jwk.AlgorithmKey, alg)
SetAlg ==
    /\ pc = "SetAlg"
    /\ \E ok \in BOOLEAN :
         /\ Called("SetAlg", ok)
         /\ IF ok THEN Continue("NewClaims")
                  ELSE ReturnOidc(Nil, "jwkKey.Set failed")
    /\ UNCHANGED <<newArgs, client, newErr, entry, frame, hooked, authRet,
                   verifyArg, cosArg, vvars, uvars>>

\* client.go:229-232, clientinstance.NewClaims(jwkKey, extraClaims)
NewClaims ==
    /\ pc = "NewClaims"
    /\ \/ \E cic \in Cics :
            /\ CalledWith("NewClaims", Nil, cic, TRUE)
            /\ frame' = [frame EXCEPT !.cic = cic]
            /\ Continue("Hash")
       \/ /\ Called("NewClaims", FALSE)
          /\ ReturnOidc(Nil, "failed to instantiate client instance claims")
          /\ UNCHANGED frame
    /\ UNCHANGED <<newArgs, client, newErr, entry, hooked, authRet,
                   verifyArg, cosArg, vvars, uvars>>

\* variant of Hash: the claims are built anew, with a fresh rz, before they
\* are hashed
HashResalted ==
    /\ pc = "Hash"
    /\ \/ \E cic \in Cics \ {frame.cic} :
            /\ Called("Hash", TRUE)
            /\ frame' = [frame EXCEPT !.commitment = CicHash(cic)]
            /\ Continue("RequestTokens")
       \/ /\ Called("Hash", FALSE)
          /\ ReturnOidc(Nil, "error getting nonce")
          /\ UNCHANGED frame
    /\ UNCHANGED <<newArgs, client, newErr, entry, hooked, authRet,
                   verifyArg, cosArg, vvars, uvars>>

\* client.go:235-238, cic.Hash()
Hash ==
    /\ pc = "Hash"
    /\ \/ /\ Called("Hash", TRUE)
          /\ frame' = [frame EXCEPT !.commitment = CicHash(frame.cic)]
          /\ Continue("RequestTokens")
       \/ /\ Called("Hash", FALSE)
          /\ ReturnOidc(Nil, "error getting nonce")
          /\ UNCHANGED frame
    /\ UNCHANGED <<newArgs, client, newErr, entry, hooked, authRet,
                   verifyArg, cosArg, vvars, uvars>>

\* variant of RequestTokens: a failed request is made again
RequestTokensRetried ==
    /\ pc = "RequestTokens"
    /\ \/ \E tok \in IdTokens(frame.commitment) :
            LET b == FreshBuf(bufs) IN
            /\ CalledWith("RequestTokens", frame.commitment, tok, TRUE)
            /\ bufs' = [bufs EXCEPT ![b] = LiveBuffer(tok)]
            /\ frame' = [frame EXCEPT !.idToken = b]
            /\ deferred' = deferred \cup {b}
            /\ pc' = "Sign"
            /\ UNCHANGED oidcRet
       \/ /\ CalledWith("RequestTokens", frame.commitment, Nil, FALSE)
          /\ UNCHANGED <<pc, frame, bufs, deferred, oidcRet>>
    /\ UNCHANGED <<newArgs, client, newErr, entry, hooked, authRet,
                   verifyArg, cosArg, vvars, uvars>>

\* client.go:241-245, o.Op.RequestTokens(ctx, string(commitment)) and
\* defer idToken.Destroy(): the defer binds the buffer idToken names now
RequestTokens ==
    /\ pc = "RequestTokens"
    /\ \/ \E tok \in IdTokens(frame.commitment) :
            LET b == FreshBuf(bufs) IN
            /\ CalledWith("RequestTokens", frame.commitment, tok, TRUE)
            /\ bufs' = [bufs EXCEPT ![b] = LiveBuffer(tok)]
            /\ frame' = [frame EXCEPT !.idToken = b]
            /\ deferred' = deferred \cup {b}
            /\ pc' = "Sign"
            /\ UNCHANGED oidcRet
       \/ /\ CalledWith("RequestTokens", frame.commitment, Nil, FALSE)
          /\ ReturnOidc(Nil, "error requesting ID Token")
          /\ UNCHANGED frame
    /\ UNCHANGED <<newArgs, client, newErr, entry, hooked, authRet,
                   verifyArg, cosArg, vvars, uvars>>

\* idToken.Bytes()
IdTokenBytes == bufs[frame.idToken].data

\* client.go:248-251, cic.Sign(signer, alg, idToken.Bytes())
Sign ==
    /\ pc = "Sign"
    /\ \/ /\ CalledWith("Sign", frame.cic,
                        CicSign(frame.cic, frame.signer, frame.alg, IdTokenBytes),
                        TRUE)
          /\ frame' = [frame EXCEPT !.cicToken =
                          CicSign(frame.cic, frame.signer, frame.alg, IdTokenBytes)]
          /\ Continue("Parse")
       \/ /\ CalledWith("Sign", frame.cic, Nil, FALSE)
          /\ ReturnOidc(Nil, "error creating cic token")
          /\ UNCHANGED frame
    /\ UNCHANGED <<newArgs, client, newErr, entry, hooked, authRet,
                   verifyArg, cosArg, vvars, uvars>>

\* client.go:253-257, jws.Parse(idToken.Bytes()) and the kid of its header
Parse ==
    /\ pc = "Parse"
    /\ LET ok == JwsParseOk(IdTokenBytes) IN
         /\ Called("Parse", ok)
         /\ IF ok THEN /\ frame' = [frame EXCEPT !.kid = IdTokenBytes.kid]
                       /\ Continue("Unmarshal")
                  ELSE /\ ReturnOidc(Nil, "malformatted ID token")
                       /\ UNCHANGED frame
    /\ UNCHANGED <<newArgs, client, newErr, entry, hooked, authRet,
                   verifyArg, cosArg, vvars, uvars>>

\* client.go:258-263, json.Unmarshal(idMessage.Payload(), &claims)
Unmarshal ==
    /\ pc = "Unmarshal"
    /\ LET ok == UnmarshalOk(IdTokenBytes) IN
         /\ Called("Unmarshal", ok)
         /\ IF ok THEN /\ frame' = [frame EXCEPT !.claimsIssuer = IdTokenBytes.iss]
                       /\ Continue("Discover")
                  ELSE /\ ReturnOidc(Nil, "json.Unmarshal failed")
                       /\ UNCHANGED frame
    /\ UNCHANGED <<newArgs, client, newErr, entry, hooked, authRet,
                   verifyArg, cosArg, vvars, uvars>>


\* the keys verifier.DiscoverProviderPublicKey can return
OpKeys == {"RSA", "EC"}

\* client.go:271, the statement after key discovery
AfterDiscover(signGQ) == IF signGQ THEN "KeyRaw" ELSE "PktNew"

\* client.go:265-268, verifier.DiscoverProviderPublicKey(ctx, kid, claims.Issuer)
Discover ==
    /\ pc = "Discover"
    /\ \/ \E key \in OpKeys :
            /\ CalledWith("Discover", frame.claimsIssuer, key, TRUE)
            /\ frame' = [frame EXCEPT !.opKey = key]
            /\ Continue(AfterDiscover(frame.signGQ))
       \/ /\ CalledWith("Discover", frame.claimsIssuer, Nil, FALSE)
          /\ ReturnOidc(Nil, "error getting OP public key")
          /\ UNCHANGED frame
    /\ UNCHANGED <<newArgs, client, newErr, entry, hooked, authRet,
                   verifyArg, cosArg, vvars, uvars>>

\* client.go:273-277, opKey.Raw(rsaKey)
KeyRaw ==
    /\ pc = "KeyRaw"
    /\ LET ok == (frame.opKey = "RSA") IN
         /\ Called("KeyRaw", ok)
         /\ IF ok THEN Continue("New256SignerVerifier")
                  ELSE ReturnOidc(Nil, "failed to decode public key")
    /\ UNCHANGED <<newArgs, client, newErr, entry, frame, hooked, authRet,
                   verifyArg, cosArg, vvars, uvars>>

\* client.go:279-282, gq.New256SignerVerifier(rsaKey)
New256SignerVerifier ==
    /\ pc = "New256SignerVerifier"
    /\ \E ok \in BOOLEAN :
         /\ Called("New256SignerVerifier", ok)
         /\ IF ok THEN Continue("SignJWT")
                  ELSE ReturnOidc(Nil, "error creating GQ signer")
    /\ UNCHANGED <<newArgs, client, newErr, entry, frame, hooked, authRet,
                   verifyArg, cosArg, vvars, uvars>>

\* client.go:283-290, sv.SignJWT(idToken.Bytes()); idToken is then pointed at
\* a new buffer holding the GQ token, and GQOnly is added to the checks
SignJWT ==
    /\ pc = "SignJWT"
    /\ \/ LET b == FreshBuf(bufs) IN
            /\ CalledWith("SignJWT", IdTokenBytes, GQSignJWT(IdTokenBytes), TRUE)
            /\ bufs' = [bufs EXCEPT ![b] = LiveBuffer(GQSignJWT(IdTokenBytes))]
            /\ frame' = [frame EXCEPT !.idToken = b,
                                      !.verifierChecks = @ \cup {"GQOnly"}]
            /\ pc' = "PktNew"
            /\ UNCHANGED <<oidcRet, deferred>>
       \/ /\ Called("SignJWT", FALSE)
          /\ ReturnOidc(Nil, "error creating GQ signature")
          /\ UNCHANGED frame
    /\ UNCHANGED <<newArgs, client, newErr, entry, hooked, authRet,
                   verifyArg, cosArg, vvars, uvars>>

\* variant of AssemblyInput: the bytes of the buffer the OP returned
AssemblyInputOriginal == bufs[CHOOSE b \in deferred : TRUE].data

\* client.go:294, the bytes given to pktoken.New
AssemblyInput == IdTokenBytes

\* client.go:294-297, pktoken.New(idToken.Bytes(), cicToken)
NewPKToken ==
    /\ pc = "PktNew"
    /\ \/ /\ CalledWith("PktNew", AssemblyInput, PktNew(AssemblyInput, frame.cicToken), TRUE)
          /\ frame' = [frame EXCEPT !.pkt = PktNew(AssemblyInput, frame.cicToken)]
          /\ Continue("AddJKTHeader")
       \/ /\ CalledWith("PktNew", AssemblyInput, Nil, FALSE)
          /\ ReturnOidc(Nil, "error creating PK Token")
          /\ UNCHANGED frame
    /\ UNCHANGED <<newArgs, client, newErr, entry, hooked, authRet,
                   verifyArg, cosArg, vvars, uvars>>

\* client.go:299-302, pkt.AddJKTHeader(opKey)
AddJKT ==
    /\ pc = "AddJKTHeader"
    /\ \/ /\ Called("AddJKTHeader", TRUE)
          /\ frame' = [frame EXCEPT !.pkt = AddJKTHeader(frame.pkt, frame.opKey)]
          /\ Continue("Verify")
       \/ /\ Called("AddJKTHeader", FALSE)
          /\ ReturnOidc(Nil, "error adding JKT header")
          /\ UNCHANGED frame
    /\ UNCHANGED <<newArgs, client, newErr, entry, hooked, authRet,
                   verifyArg, cosArg, vvars, uvars>>

\* variant of VerifyOutcome: the verifier's error is logged but not returned
VerifyOutcomeErrDropped(accepted, pkt) == [pkt |-> pkt, err |-> "nil"]

\* client.go:305-309, what OidcAuth returns once the verifier has answered
VerifyOutcome(accepted, pkt) ==
    IF accepted THEN [pkt |-> pkt, err |-> "nil"]
                ELSE [pkt |-> Nil, err |-> "error verifying PK Token"]

\* client.go:304-309, o.verifier.VerifyPKToken(ctx, pkt, verifierChecks...).
\* A client whose verifier field is nil panics on the call; the deferred
\* Destroy still runs while the panic unwinds.
Verify ==
    /\ pc = "Verify"
    /\ IF client.verifier = NilVerifier
       THEN /\ bufs' = RunDeferred(bufs, deferred)
            /\ deferred' = {}
            /\ pc' = "panicked"
            /\ UNCHANGED <<oidcRet, verifyArg, trace>>
       ELSE \E accepted \in BOOLEAN :
              LET r == VerifyOutcome(accepted, frame.pkt) IN
              /\ verifyArg' = [verifier |-> client.verifier, pkt |-> frame.pkt,
                               checks |-> frame.verifierChecks]
              /\ CalledWith("Verify", frame.pkt, Nil, accepted)
              /\ ReturnOidc(r.pkt, r.err)
    /\ UNCHANGED <<newArgs, client, newErr, entry, frame, hooked, authRet,
                   cosArg, vvars, uvars>>

\* client.go:185, without a cosigner Auth returns what OidcAuth returned
AuthReturn ==
    /\ pc = "AuthResume"
    /\ client.cosP = Nil
    /\ authRet' = oidcRet
    /\ pc' = "done"
    /\ UNCHANGED <<newArgs, client, newErr, entry, frame, bufs, deferred, trace,
                   hooked, oidcRet, verifyArg, cosArg, vvars, uvars>>

\* variant of AuthCosign: the error of OidcAuth is not looked at
AuthCosignUnchecked ==
    /\ pc = "AuthResume"
    /\ client.cosP # Nil
    /\ cosArg' = oidcRet.pkt
    /\ \/ /\ CalledWith("CosignerRequestToken", oidcRet.pkt, Nil, TRUE)
          /\ authRet' = [pkt |-> oidcRet.pkt, err |-> "nil"]
       \/ /\ CalledWith("CosignerRequestToken", oidcRet.pkt, Nil, FALSE)
          /\ authRet' = [pkt |-> Nil, err |-> "cosigner request failed"]
    /\ pc' = "done"
    /\ UNCHANGED <<newArgs, client, newErr, entry, frame, bufs, deferred,
                   hooked, oidcRet, verifyArg, vvars, uvars>>

\* client.go:199-203, the cosigner flow after OidcAuth
AuthCosign ==
    /\ pc = "AuthResume"
    /\ client.cosP # Nil
    /\ IF oidcRet.err # "nil"
       THEN /\ authRet' = [pkt |-> Nil, err |-> oidcRet.err]
            /\ UNCHANGED <<trace, cosArg>>
       ELSE /\ cosArg' = oidcRet.pkt
            /\ \/ /\ CalledWith("CosignerRequestToken", oidcRet.pkt,
                               Cosigned(oidcRet.pkt, client.cosP), TRUE)
                  /\ authRet' = [pkt |-> Cosigned(oidcRet.pkt, client.cosP),
                                 err |-> "nil"]
               \/ /\ CalledWith("CosignerRequestToken", oidcRet.pkt, Nil, FALSE)
                  /\ authRet' = [pkt |-> Nil, err |-> "cosigner request failed"]
    /\ pc' = "done"
    /\ UNCHANGED <<newArgs, client, newErr, entry, frame, bufs, deferred,
                   hooked, oidcRet, verifyArg, vvars, uvars>>

ClientNext ==
    \/ New \/ Literal \/ Auth \/ DirectOidcAuth
    \/ PublicKeyOf \/ SetAlg \/ NewClaims \/ Hash \/ RequestTokens \/ Sign
    \/ Parse \/ Unmarshal \/ Discover \/ KeyRaw \/ New256SignerVerifier
    \/ SignJWT \/ NewPKToken \/ AddJKT \/ Verify \/ AuthReturn \/ AuthCosign

Spec == Init /\ [][ClientNext]_vars


-----------------------------------------------------------------------------
(* VerifyPKToken, part_001:79-169                                          *)

\* JSON values of a payload claim, tagged by their JSON type
StrClaim(v) == [t |-> "string", v |-> v]
NumClaim == [t |-> "number", v |-> "7"]

\* decoded payloads of the tokens handed to VerifyPKToken; a claim that is
\* absent is not in the payload's domain
Payloads ==
    { [iss |-> StrClaim(i), sub |-> StrClaim("u1")] : i \in {OpIssuer, EvilIssuer} }
    \cup { [iss |-> NumClaim, sub |-> StrClaim("u1")] }
    \cup { [sub |-> StrClaim("u1")] }

\* a payload segment that is not base64url JSON
BadSegment == [malformed |-> TRUE]

\* part_001:226-238, parseJWTSegment
ParseJWTSegmentOk(segment) == segment # BadSegment

\* part_001:201-224, ExtractClaim on the payload segment of a compact token
ExtractClaim(payload, claimName) ==
    IF ~ParseJWTSegmentOk(payload)
    THEN [val |-> "", err |-> "error parsing segment"]
    ELSE IF claimName \notin DOMAIN payload
    THEN [val |-> "", err |-> "claim missing from payload"]
    ELSE IF payload[claimName].t # "string"
    THEN [val |-> "", err |-> "expected claim to be a string"]
    ELSE [val |-> payload[claimName].v, err |-> "nil"]

\* OP header alg values; "none" is a header without alg
OpAlgs == {"GQ256", "RS256", "ES256", "none"}

\* the original header a GQ256 signature carries: its alg, or a segment
\* that does not parse, or a signature from which no header can be taken
OrigHeaders == {"RS256", "ES256", "malformed", "missing"}

\* the PK Tokens handed to VerifyPKToken
VerifyTokens ==
    { [cic |-> c, payload |-> p, alg |-> a, origHdr |-> o, cos |-> k] :
        c \in Cics \cup {BadSegment}, p \in Payloads \cup {BadSegment},
        a \in OpAlgs \ {"GQ256"}, o \in {"none"}, k \in {"none", CosIssuer} }
    \cup
    { [cic |-> c, payload |-> p, alg |-> a, origHdr |-> o, cos |-> k] :
        c \in Cics \cup {BadSegment}, p \in Payloads \cup {BadSegment},
        a \in {"GQ256"}, o \in OrigHeaders, k \in {"none", CosIssuer} }

\* the provider argument
Providers == { [issuer |-> OpIssuer] }

NoLocals == [cic |-> Nil, commitment |-> Nil, idt |-> Nil, issuer |-> "",
             alg |-> "", origAlg |-> "", pubKey |-> "nil"]

\* a call made by VerifyPKToken and its outcome
VCalled(call, arg, ok) ==
    vlog' = Append(vlog, [call |-> call, arg |-> arg, ok |-> ok])

\* return err
VReturn(err) == vret' = err /\ vpc' = "done"

\* a caller invokes VerifyPKToken(ctx, pkt, provider)
VerifyCall ==
    /\ vpc = "start"
    /\ \E pkt \in VerifyTokens, provider \in Providers :
         vin' = [pkt |-> pkt, provider |-> provider]
    /\ vloc' = NoLocals
    /\ vpc' = "GetCicValues"
    /\ UNCHANGED <<vlog, vret, cvars, uvars>>

\* part_001:80-83, pkt.GetCicValues()
GetCicValues ==
    /\ vpc = "GetCicValues"
    /\ LET ok == ParseJWTSegmentOk(vin.pkt.cic) IN
         /\ VCalled("GetCicValues", Nil, ok)
         /\ IF ok THEN /\ vloc' = [vloc EXCEPT !.cic = vin.pkt.cic]
                       /\ vpc' = "Hash"
                       /\ UNCHANGED vret
                  ELSE /\ VReturn("GetCicValues failed")
                       /\ UNCHANGED vloc
    /\ UNCHANGED <<vin, cvars, uvars>>

\* part_001:85-88, cic.Hash()
VHash ==
    /\ vpc = "Hash"
    /\ \/ /\ VCalled("Hash", vloc.cic, TRUE)
          /\ vloc' = [vloc EXCEPT !.commitment = CicHash(vloc.cic)]
          /\ vpc' = "Compact"
          /\ UNCHANGED vret
       \/ /\ VCalled("Hash", vloc.cic, FALSE)
          /\ VReturn("cic.Hash failed")
          /\ UNCHANGED vloc
    /\ UNCHANGED <<vin, cvars, uvars>>

\* part_001:90-93, pkt.Compact(pkt.Op)
Compact ==
    /\ vpc = "Compact"
    /\ \/ /\ VCalled("Compact", Nil, TRUE)
          /\ vloc' = [vloc EXCEPT !.idt =
                        [payload |-> vin.pkt.payload, alg |-> vin.pkt.alg,
                         origHdr |-> vin.pkt.origHdr]]
          /\ vpc' = "ExtractClaim"
          /\ UNCHANGED vret
       \/ /\ VCalled("Compact", Nil, FALSE)
          /\ VReturn("pkt.Compact failed")
          /\ UNCHANGED vloc
    /\ UNCHANGED <<vin, cvars, uvars>>

\* variant of IssuerMismatch: only an empty iss is refused
IssuerMismatchEmptyOnly(issuer, provider) == issuer = ""

\* part_001:100, issuer != provider.Issuer()
IssuerMismatch(issuer, provider) == issuer # provider.issuer

\* part_001:95-102, ExtractClaim(idt, "iss") and the issuer comparison
CheckIssuer ==
    /\ vpc = "ExtractClaim"
    /\ LET r == ExtractClaim(vloc.idt.payload, "iss") IN
       IF r.err # "nil"
       THEN /\ VCalled("ExtractClaim", "iss", FALSE)
            /\ VReturn(r.err)
            /\ UNCHANGED vloc
       ELSE IF IssuerMismatch(r.val, vin.provider)
       THEN /\ VCalled("ExtractClaim", "iss", TRUE)
            /\ VReturn("expected token to have issuer")
            /\ vloc' = [vloc EXCEPT !.issuer = r.val]
       ELSE /\ VCalled("ExtractClaim", "iss", TRUE)
            /\ vloc' = [vloc EXCEPT !.issuer = r.val]
            /\ vpc' = "ProviderAlgorithm"
            /\ UNCHANGED vret
    /\ UNCHANGED <<vin, cvars, uvars>>

\* part_001:109-155, the case the switch on alg selects; a value that matches
\* no case leaves the switch
AlgCase(alg) ==
    CASE alg = "GQ256" -> "OriginalJWTHeaders"
      [] alg = "RS256" -> "VerifyNonGQSig"
      [] OTHER -> "VerifyCicSig"

\* part_001:104-109, pkt.ProviderAlgorithm() and the switch
ProviderAlgorithm ==
    /\ vpc = "ProviderAlgorithm"
    /\ LET ok == vin.pkt.alg # "none" IN
         /\ VCalled("ProviderAlgorithm", Nil, ok)
         /\ IF ok THEN /\ vloc' = [vloc EXCEPT !.alg = vin.pkt.alg]
                       /\ vpc' = AlgCase(vin.pkt.alg)
                       /\ UNCHANGED vret
                  ELSE /\ VReturn("provider algorithm type missing")
                       /\ UNCHANGED vloc
    /\ UNCHANGED <<vin, cvars, uvars>>


\* part_001:111-114, gq.OriginalJWTHeaders(idt)
OriginalJWTHeaders ==
    /\ vpc = "OriginalJWTHeaders"
    /\ LET ok == vloc.idt.origHdr # "missing" IN
         /\ VCalled("OriginalJWTHeaders", Nil, ok)
         /\ IF ok THEN vpc' = "ParseOrigHeaders" /\ UNCHANGED vret
                  ELSE VReturn("gq.OriginalJWTHeaders failed")
    /\ UNCHANGED <<vin, vloc, cvars, uvars>>

\* part_001:116-120, parseJWTSegment(origHeadersB64, &origHeaders)
ParseOrigHeaders ==
    /\ vpc = "ParseOrigHeaders"
    /\ LET ok == vloc.idt.origHdr # "malformed" IN
         /\ VCalled("ParseOrigHeaders", Nil, ok)
         /\ IF ok THEN /\ vloc' = [vloc EXCEPT !.origAlg = vloc.idt.origHdr]
                       /\ vpc' = "CheckOrigAlg"
                       /\ UNCHANGED vret
                  ELSE /\ VReturn("error parsing segment")
                       /\ UNCHANGED vloc
    /\ UNCHANGED <<vin, cvars, uvars>>

\* variant of OrigAlgRejected: only a missing alg is refused
OrigAlgRejectedEmptyOnly(alg) == alg = ""

\* part_001:123, alg != jwa.RS256
OrigAlgRejected(alg) == alg # "RS256"

\* part_001:122-125, the alg of the original headers must be RS256
CheckOrigAlg ==
    /\ vpc = "CheckOrigAlg"
    /\ LET ok == ~OrigAlgRejected(vloc.origAlg) IN
         /\ VCalled("CheckOrigAlg", vloc.origAlg, ok)
         /\ IF ok THEN vpc' = "PublicKey" /\ UNCHANGED vret
                  ELSE VReturn("expected original headers to contain RS256 alg")
    /\ UNCHANGED <<vin, vloc, cvars, uvars>>

\* the keys provider.PublicKey can return
PublicKeys == {"RSA", "ECDSA"}

\* part_001:128-131, provider.PublicKey(ctx, origHeaders)
PublicKey ==
    /\ vpc = "PublicKey"
    /\ \/ \E key \in PublicKeys :
            /\ VCalled("PublicKey", vloc.origAlg, TRUE)
            /\ vloc' = [vloc EXCEPT !.pubKey = key]
            /\ vpc' = "IsRSA"
            /\ UNCHANGED vret
       \/ /\ VCalled("PublicKey", vloc.origAlg, FALSE)
          /\ VReturn("failed to get OP public key")
          /\ UNCHANGED vloc
    /\ UNCHANGED <<vin, cvars, uvars>>

\* part_001:133-136, pubKey.(*rsa.PublicKey)
IsRSA ==
    /\ vpc = "IsRSA"
    /\ LET ok == (vloc.pubKey = "RSA") IN
         /\ VCalled("IsRSA", vloc.pubKey, ok)
         /\ IF ok THEN vpc' = "VerifyGQSig" /\ UNCHANGED vret
                  ELSE VReturn("expected public key to be a *rsa.PublicKey")
    /\ UNCHANGED <<vin, vloc, cvars, uvars>>

\* part_001:138-141, pkt.VerifyGQSig(rsaPubKey, GQSecurityParameter)
VerifyGQSig ==
    /\ vpc = "VerifyGQSig"
    /\ \E ok \in BOOLEAN :
         /\ VCalled("VerifyGQSig", vloc.pubKey, ok)
         /\ IF ok THEN vpc' = "VerifyCICHash" /\ UNCHANGED vret
                  ELSE VReturn("error verifying OP GQ signature on PK Token")
    /\ UNCHANGED <<vin, vloc, cvars, uvars>>

\* part_001:143-146, provider.VerifyCICHash(ctx, idt, string(commitment))
VerifyCICHash ==
    /\ vpc = "VerifyCICHash"
    /\ \E ok \in BOOLEAN :
         /\ VCalled("VerifyCICHash", vloc.commitment, ok)
         /\ IF ok THEN vpc' = "VerifyCicSig" /\ UNCHANGED vret
                  ELSE VReturn("failed to verify CIC hash")
    /\ UNCHANGED <<vin, vloc, cvars, uvars>>

\* part_001:148-154, provider.VerifyNonGQSig(ctx, idt, string(commitment))
VerifyNonGQSig ==
    /\ vpc = "VerifyNonGQSig"
    /\ \E r \in {"nil", "ErrNonGQUnsupported", "invalid"} :
         /\ VCalled("VerifyNonGQSig", vloc.commitment, r = "nil")
         /\ IF r = "nil" THEN vpc' = "VerifyCicSig" /\ UNCHANGED vret
            ELSE IF r = "ErrNonGQUnsupported"
            THEN VReturn("oidc provider doesn't support non-GQ signatures")
            ELSE VReturn("failed to verify signature from OIDC provider")
    /\ UNCHANGED <<vin, vloc, cvars, uvars>>

\* part_001:157-160, pkt.VerifyCicSig()
VerifyCicSig ==
    /\ vpc = "VerifyCicSig"
    /\ \E ok \in BOOLEAN :
         /\ VCalled("VerifyCicSig", Nil, ok)
         /\ IF ok THEN vpc' = "Cos" /\ UNCHANGED vret
                  ELSE VReturn("error verifying CIC signature on PK Token")
    /\ UNCHANGED <<vin, vloc, cvars, uvars>>

\* variant of VerifyCos: the cosigner section is not looked at
VerifyCosSkipped ==
    /\ vpc = "Cos"
    /\ VReturn("nil")
    /\ UNCHANGED <<vlog, vin, vloc, cvars, uvars>>

\* part_001:162-168, the cosigner signature when pkt.Cos is set, then return nil
VerifyCos ==
    /\ vpc = "Cos"
    /\ IF vin.pkt.cos # "none"
       THEN \E ok \in BOOLEAN :
              /\ VCalled("VerifyCosignerSignature", Nil, ok)
              /\ IF ok THEN VReturn("nil")
                       ELSE VReturn("error verify cosigner signature on PK Token")
       ELSE /\ VReturn("nil")
            /\ UNCHANGED vlog
    /\ UNCHANGED <<vin, vloc, cvars, uvars>>

VerifyNext ==
    \/ VerifyCall \/ GetCicValues \/ VHash \/ Compact \/ CheckIssuer
    \/ ProviderAlgorithm \/ OriginalJWTHeaders \/ ParseOrigHeaders
    \/ CheckOrigAlg \/ PublicKey \/ IsRSA \/ VerifyGQSig \/ VerifyCICHash
    \/ VerifyNonGQSig \/ VerifyCicSig \/ VerifyCos

SpecVerify == Init /\ [][VerifyNext]_vars


-----------------------------------------------------------------------------
(* Claim decoding: ExtractClaim (part_001:201-224) and                     *)
(* OidcClaims.UnmarshalJSON (part_001:40-68)                               *)

\* longest aud array handed to the decoders
MaxAud == 2

\* a JSON array; its elements are JSON values
ArrClaim(elems) == [t |-> "array", elems |-> elems]

AudStrings == {"a", "b"}

\* aud arrays of strings, and one array that holds a number
AudArrays ==
    { ArrClaim(e) : e \in UNION { [1..n -> { StrClaim(a) : a \in AudStrings }] :
                                    n \in 0..MaxAud } }
    \cup { ArrClaim(<<StrClaim("a"), NumClaim>>) }

\* the values the aud claim takes
AudClaims == { StrClaim("a"), NumClaim } \cup AudArrays

\* the values the iss claim takes
IssClaims == { StrClaim(OpIssuer), NumClaim }

\* decoded payloads: iss and aud are each present or absent
ClaimPayloads ==
    { [iss |-> i, aud |-> a, sub |-> StrClaim("u1")] : i \in IssClaims, a \in AudClaims }
    \cup { [iss |-> i, sub |-> StrClaim("u1")] : i \in IssClaims }
    \cup { [aud |-> a, sub |-> StrClaim("u1")] : a \in AudClaims }
    \cup { [sub |-> StrClaim("u1")] }

ClaimNames == {"iss", "aud", "sub"}

\* strings.Join(audList, ",")
RECURSIVE Join(_)
Join(list) ==
    IF Len(list) = 0 THEN ""
    ELSE IF Len(list) = 1 THEN list[1]
    ELSE list[1] \o "," \o Join(Tail(list))

\* part_001:54-65, the Audience the type switch on aux.Audience gives; the
\* assertion v.(string) panics on an element that is no string
AudienceOf(payload) ==
    IF "aud" \notin DOMAIN payload
    THEN [val |-> "", err |-> "nil"]
    ELSE IF payload.aud.t = "string"
    THEN [val |-> payload.aud.v, err |-> "nil"]
    ELSE IF payload.aud.t = "array"
    THEN IF \E k \in DOMAIN payload.aud.elems : payload.aud.elems[k].t # "string"
         THEN [val |-> "", err |-> "panic"]
         ELSE [val |-> Join([k \in DOMAIN payload.aud.elems |->
                               payload.aud.elems[k].v]),
               err |-> "nil"]
    ELSE [val |-> "", err |-> "nil"]

\* part_001:40-68, OidcClaims.UnmarshalJSON: json.Unmarshal refuses bytes
\* that are no JSON object and a typed field (iss, sub) that holds no string
UnmarshalJSON(payload) ==
    IF ~ParseJWTSegmentOk(payload)
    THEN [Issuer |-> "", Audience |-> "", err |-> "json: syntax error"]
    ELSE IF \E c \in {"iss", "sub"} :
              c \in DOMAIN payload /\ payload[c].t # "string"
    THEN [Issuer |-> "", Audience |-> "", err |-> "json: cannot unmarshal"]
    ELSE LET a == AudienceOf(payload)
         IN  [Issuer |-> IF "iss" \in DOMAIN payload THEN payload.iss.v ELSE "",
              Audience |-> a.val, err |-> a.err]

\* a caller invokes ExtractClaim(idt, claimName)
CallExtractClaim ==
    /\ xpc = "start"
    /\ \E payload \in ClaimPayloads \cup {BadSegment}, claimName \in ClaimNames :
         /\ xin' = [payload |-> payload, claimName |-> claimName]
         /\ xout' = ExtractClaim(payload, claimName)
    /\ xpc' = "ExtractClaim"
    /\ UNCHANGED <<cvars, vvars, dvars, hvars>>

\* a caller decodes a payload into OidcClaims
CallUnmarshalJSON ==
    /\ xpc = "start"
    /\ \E payload \in ClaimPayloads \cup {BadSegment} :
         /\ xin' = [payload |-> payload, claimName |-> "aud"]
         /\ xout' = UnmarshalJSON(payload)
    /\ xpc' = "UnmarshalJSON"
    /\ UNCHANGED <<cvars, vvars, dvars, hvars>>

ClaimsNext == CallExtractClaim \/ CallUnmarshalJSON

SpecClaims == Init /\ [][ClaimsNext]_vars

-----------------------------------------------------------------------------
(* DiscoverPublicKey (part_001:171-199)                                    *)

\* most keys in a fetched JWKS
MaxKeys == 2

Kids == {"kid1", "kid2"}

\* alg parameter of a JWK; "" when the JWK has none
KeyAlgs == {"RS256", "ES256", ""}

KeyTypes == {"RSA", "EC"}

Jwks == [kid : Kids, alg : KeyAlgs, kty : KeyTypes]

\* the key sets jwk.Fetch can give
JwkSets == UNION { [1..n -> Jwks] : n \in 0..MaxKeys }

\* jwks.LookupKeyID(kid): the first key of the set with this kid
LookupKeyID(jwks, kid) ==
    IF \E k \in DOMAIN jwks : jwks[k].kid = kid
    THEN [key |-> jwks[CHOOSE k \in DOMAIN jwks :
                         /\ jwks[k].kid = kid
                         /\ \A j \in DOMAIN jwks : jwks[j].kid = kid => k <= j],
          ok |-> TRUE]
    ELSE [key |-> Nil, ok |-> FALSE]

\* part_001:188, key.Algorithm() != jwa.RS256
KeyAlgRejectedEmptyOnly(alg) == alg = ""

KeyAlgRejected(alg) == alg # "RS256"

\* key.Raw(pubKey) into an *rsa.PublicKey succeeds for RSA keys only
RawRSAOk(key) == key.kty = "RSA"

DCalled(call, ok) == dlog' = Append(dlog, [call |-> call, ok |-> ok])

DReturn(key, err) ==
    /\ dret' = [key |-> key, err |-> err]
    /\ dpc' = "done"

\* a caller invokes DiscoverPublicKey(ctx, headers, issuer)
DiscoverPublicKey ==
    /\ dpc = "start"
    /\ \E kid \in Kids, issuer \in {OpIssuer, EvilIssuer} :
         din' = [kid |-> kid, issuer |-> issuer]
    /\ dloc' = [discOk |-> FALSE, fetched |-> FALSE, jwks |-> <<>>, key |-> Nil]
    /\ dpc' = "Discover"
    /\ UNCHANGED <<dlog, dret, cvars, vvars, xvars, hvars>>

\* part_001:172-175
OidcclientDiscover ==
    /\ dpc = "Discover"
    /\ \E ok \in BOOLEAN :
         /\ DCalled("oidcclient.Discover", ok)
         /\ IF ok
            THEN /\ dloc' = [dloc EXCEPT !.discOk = TRUE]
                 /\ dpc' = "Fetch"
                 /\ UNCHANGED dret
            ELSE /\ DReturn(Nil, "failed to call OIDC discovery endpoint")
                 /\ UNCHANGED dloc
    /\ UNCHANGED <<din, cvars, vvars, xvars, hvars>>

\* part_001:177-180
JwkFetch ==
    /\ dpc = "Fetch"
    /\ \/ /\ DCalled("jwk.Fetch", FALSE)
          /\ DReturn(Nil, "failed to fetch to JWKS")
          /\ UNCHANGED dloc
       \/ /\ \E jwks \in JwkSets :
               dloc' = [dloc EXCEPT !.fetched = TRUE, !.jwks = jwks]
          /\ DCalled("jwk.Fetch", TRUE)
          /\ dpc' = "LookupKeyID"
          /\ UNCHANGED dret
    /\ UNCHANGED <<din, cvars, vvars, xvars, hvars>>

\* part_001:182-186
KeyLookup ==
    /\ dpc = "LookupKeyID"
    /\ LET found == LookupKeyID(dloc.jwks, din.kid)
       IN  /\ DCalled("LookupKeyID", found.ok)
           /\ IF found.ok
              THEN /\ dloc' = [dloc EXCEPT !.key = found.key]
                   /\ dpc' = "Algorithm"
                   /\ UNCHANGED dret
              ELSE /\ DReturn(Nil, "key isn't in JWKS")
                   /\ UNCHANGED dloc
    /\ UNCHANGED <<din, cvars, vvars, xvars, hvars>>

\* part_001:188-190
KeyAlgorithm ==
    /\ dpc = "Algorithm"
    /\ DCalled("Algorithm", ~KeyAlgRejected(dloc.key.alg))
    /\ IF KeyAlgRejected(dloc.key.alg)
       THEN DReturn(Nil, "expected alg to be RS256")
       ELSE /\ dpc' = "Raw"
            /\ UNCHANGED dret
    /\ UNCHANGED <<din, dloc, cvars, vvars, xvars, hvars>>

\* part_001:192-198
KeyRawRSA ==
    /\ dpc = "Raw"
    /\ DCalled("Raw", RawRSAOk(dloc.key))
    /\ IF RawRSAOk(dloc.key)
       THEN DReturn(dloc.key, "nil")
       ELSE DReturn(Nil, "failed to decode public key")
    /\ UNCHANGED <<din, dloc, cvars, vvars, xvars, hvars>>

DiscoverNext ==
    \/ DiscoverPublicKey
    \/ OidcclientDiscover
    \/ JwkFetch
    \/ KeyLookup
    \/ KeyAlgorithm
    \/ KeyRawRSA

SpecDiscover == Init /\ [][DiscoverNext]_vars

-----------------------------------------------------------------------------
(* Concurrent Auth calls in the cosigner flow (client.go:175-205): the     *)
(* redirect-URI channel, the HTTP hook and its handler                     *)

\* most invocations of one registered handler by the OP's HTTP server
MaxInvocations == 2

\* client.go:192, make(chan string, 1)
ChanCap == 1

\* client.go:192, the channel made by the Auth call of client p
ChanShared(p) == "c1"

ChanOf(p) == p

\* the redirect URI the cosigner of client p supplies
RedirectUri(p) == [mfa |-> p]

\* the errors OidcAuth returns after RequestTokens gave an ID token
\* (client.go:248-306), a cancelled context among them
OidcAuthErrs == {"error creating cic token", "error verifying PK Token",
                 "context canceled"}

HClientConfigs ==
    [Op : {"own"}, cosP : {"nil", "cosigner"}, browser : BOOLEAN]

HLogged(p, call) == hlog' = [hlog EXCEPT ![p] = Append(@, call)]

\* Auth returns (pkt, err)
HReturn(p, pkt, err) ==
    /\ hres' = [hres EXCEPT ![p] = [pkt |-> pkt, err |-> err]]
    /\ hpc' = [hpc EXCEPT ![p] = "done"]

\* a client is constructed; the OP object is its own
HNew(p) ==
    /\ hpc[p] = "none"
    /\ \E cfg \in HClientConfigs : hcl' = [hcl EXCEPT ![p] = cfg]
    /\ hpc' = [hpc EXCEPT ![p] = "ready"]
    /\ UNCHANGED <<hopts, chans, hook, inv, sent, hlog, hres,
                   cvars, vvars, xvars, dvars>>

\* client.go:176-192: authOpts is built, the cosigner and the capability of
\* the OP are examined, the channel is made
HAuth(p) ==
    /\ hpc[p] = "ready"
    /\ \E extra \in {"none", "extra"} :
         hopts' = [hopts EXCEPT ![p] = [extraClaims |-> extra]]
    /\ IF hcl[p].cosP = "nil"
       THEN /\ hpc' = [hpc EXCEPT ![p] = "OidcAuth"]
            /\ UNCHANGED <<chans, hres>>
       ELSE IF ~hcl[p].browser
       THEN /\ HReturn(p, "nil", "OP supplied does not have support for MFA Cosigner")
            /\ UNCHANGED chans
       ELSE /\ chans' = [chans EXCEPT ![ChanOf(p)] = <<>>]
            /\ hpc' = [hpc EXCEPT ![p] = "HookHTTPSession"]
            /\ UNCHANGED hres
    /\ UNCHANGED <<hcl, hook, inv, sent, hlog,
                   cvars, vvars, xvars, dvars>>

\* client.go:194-197: the handler, a closure over redirCh, is registered
HookHTTPSession(p) ==
    /\ hpc[p] = "HookHTTPSession"
    /\ hook' = [hook EXCEPT ![p] = [redirCh |-> ChanOf(p)]]
    /\ HLogged(p, "HookHTTPSession")
    /\ hpc' = [hpc EXCEPT ![p] = "OidcAuth"]
    /\ UNCHANGED <<hcl, hopts, chans, inv, sent, hres,
                   cvars, vvars, xvars, dvars>>

\* client.go:208-241: OidcAuth calls o.Op.RequestTokens
HRequestTokensCall(p) ==
    /\ hpc[p] = "OidcAuth"
    /\ HLogged(p, "RequestTokens")
    /\ hpc' = [hpc EXCEPT ![p] = "RequestTokens"]
    /\ UNCHANGED <<hcl, hopts, chans, hook, inv, sent, hres,
                   cvars, vvars, xvars, dvars>>

\* the OP's HTTP server, serving the OIDC callback during RequestTokens,
\* invokes the registered handler, which starts to wait on its channel
\* (client.go:195)
HandlerInvoke(p) ==
    /\ hpc[p] = "RequestTokens"
    /\ hook[p] # Nil
    /\ Len(inv[p]) < MaxInvocations
    /\ inv' = [inv EXCEPT ![p] =
                 Append(@, [redirCh |-> hook[p].redirCh, state |-> "waiting",
                            redirectUri |-> Nil])]
    /\ UNCHANGED <<hpc, hcl, hopts, chans, hook, sent, hlog, hres,
                   cvars, vvars, xvars, dvars>>

\* client.go:241-244: RequestTokens returns
HRequestTokensReturn(p) ==
    /\ hpc[p] = "RequestTokens"
    /\ \E ok \in BOOLEAN :
         IF ok
         THEN /\ hpc' = [hpc EXCEPT ![p] = "idToken"]
              /\ UNCHANGED hres
         ELSE HReturn(p, "nil", "error requesting ID Token")
    /\ UNCHANGED <<hcl, hopts, chans, hook, inv, sent, hlog,
                   cvars, vvars, xvars, dvars>>

\* client.go:245-309 and 185, 199-202: the rest of OidcAuth; Auth returns
\* its result when it failed or when no cosigner is set
HOidcAuthReturn(p) ==
    /\ hpc[p] = "idToken"
    /\ \/ \E err \in OidcAuthErrs : HReturn(p, "nil", err)
       \/ IF hcl[p].cosP = "nil"
          THEN HReturn(p, "pkt", "nil")
          ELSE /\ hpc' = [hpc EXCEPT ![p] = "cosP.RequestToken"]
               /\ UNCHANGED hres
    /\ UNCHANGED <<hcl, hopts, chans, hook, inv, sent, hlog,
                   cvars, vvars, xvars, dvars>>

\* client.go:203: inside o.cosP.RequestToken the cosigner puts the redirect
\* URI on redirCh
CosSupplyUri(p) ==
    /\ hpc[p] = "cosP.RequestToken"
    /\ sent[p] = <<>>
    /\ Len(chans[ChanOf(p)]) < ChanCap
    /\ chans' = [chans EXCEPT ![ChanOf(p)] = Append(@, RedirectUri(p))]
    /\ sent' = [sent EXCEPT ![p] = Append(@, RedirectUri(p))]
    /\ UNCHANGED <<hpc, hcl, hopts, hook, inv, hlog, hres,
                   cvars, vvars, xvars, dvars>>

\* client.go:203: o.cosP.RequestToken returns and Auth returns its result;
\* it gives a cosigned token only after it supplied the URI
CosRequestTokenReturn(p) ==
    /\ hpc[p] = "cosP.RequestToken"
    /\ \/ HReturn(p, "nil", "cosigner error")
       \/ /\ sent[p] # <<>>
          /\ HReturn(p, "cosigned pkt", "nil")
    /\ HLogged(p, "cosP.RequestToken")
    /\ UNCHANGED <<hcl, hopts, chans, hook, inv, sent,
                   cvars, vvars, xvars, dvars>>

\* client.go:195-196, without the receive: the handler redirects at once
HandlerRedirectNoWait(p, i) ==
    /\ i \in DOMAIN inv[p]
    /\ inv[p][i].state = "waiting"
    /\ inv' = [inv EXCEPT ![p][i].state = "responded",
                          ![p][i].redirectUri = [mfa |-> ""]]
    /\ UNCHANGED <<hpc, hcl, hopts, chans, hook, sent, hlog, hres,
                   cvars, vvars, xvars, dvars>>

\* client.go:195-196: redirectUri := <-redirCh, then http.Redirect with
\* StatusFound
HandlerRedirect(p, i) ==
    /\ i \in DOMAIN inv[p]
    /\ inv[p][i].state = "waiting"
    /\ chans[inv[p][i].redirCh] # <<>>
    /\ inv' = [inv EXCEPT ![p][i].state = "responded",
                          ![p][i].redirectUri = Head(chans[inv[p][i].redirCh])]
    /\ chans' = [chans EXCEPT ![inv[p][i].redirCh] = Tail(@)]
    /\ UNCHANGED <<hpc, hcl, hopts, hook, sent, hlog, hres,
                   cvars, vvars, xvars, dvars>>

\* the steps of the Auth call of client p, of its OP and of its cosigner
HStep(p) ==
    \/ HNew(p)
    \/ HAuth(p)
    \/ HookHTTPSession(p)
    \/ HRequestTokensCall(p)
    \/ HandlerInvoke(p)
    \/ HRequestTokensReturn(p)
    \/ HOidcAuthReturn(p)
    \/ CosSupplyUri(p)
    \/ CosRequestTokenReturn(p)
    \/ \E i \in 1..MaxInvocations : HandlerRedirect(p, i)

HookNext == \E p \in Clients : HStep(p)

SpecHook == Init /\ [][HookNext]_vars





-----------------------------------------------------------------------------
(* Properties                                                              *)

\* positions of the calls named call in the record of this Auth call
Calls(call) == { i \in 1..Len(trace) : trace[i].call = call }

\* the call named c was made before position j and succeeded
OkBefore(c, j) == \E i \in 1..(j - 1) : trace[i].call = c /\ trace[i].ok

\* New returned a client
NewSucceeded == client # NoClient /\ client.viaNew

\* C1: after New(op, WithCosignerProvider(cosP)) with a non-nil cosP, the
\* verifier stored in the client is the cosigner-aware verifier built with
\* the cosigner verifier for cosP.Issuer, not a provider-only verifier.
C1_CosignerVerifierRetained ==
    (NewSucceeded /\ newArgs.cosP # Nil /\ newArgs.customVerifier = NilVerifier)
    => client.verifier =
         VerifierNew(NewProviderVerifier(newArgs.op.issuer,
                                         newArgs.op.commitmentClaim),
                     {NewCosignerVerifier(newArgs.cosP.Issuer)})

\* C2: after New(op, WithCustomVerifier(v)) the client's verifier is v, and
\* v is the verifier OidcAuth invokes.
C2_CustomVerifierKept ==
    (NewSucceeded /\ newArgs.customVerifier = CustomVerifier)
    => /\ client.verifier = CustomVerifier
       /\ verifyArg # Nil => verifyArg.verifier = CustomVerifier

\* C3: whenever OidcAuth has returned, no buffer that held ID token bytes
\* during the call is still live: the OP's buffer and the buffer of the
\* GQ-transformed token have both been destroyed.
C3_AllBuffersDestroyedOnReturn ==
    oidcRet # Pending => \A b \in BufIds : bufs[b].state # "live"

\* C4: VerifyPKToken never accepts a PK Token whose OP header alg is present
\* but is neither GQ256 nor RS256.
C4_UnsupportedAlgRejected ==
    (vpc = "done" /\ vin.pkt.alg \notin {"GQ256", "RS256", "none"})
    => vret # "nil"

\* the six steps of one authentication, in the order the flow names them
StepRank(call) ==
    CASE call = "NewClaims" -> 1
      [] call = "RequestTokens" -> 2
      [] call = "SignJWT" -> 3
      [] call = "PktNew" -> 4
      [] call = "Verify" -> 5
      [] call = "CosignerRequestToken" -> 6
      [] OTHER -> 0

\* C5: the steps of Auth occur in the order CIC construction, OP token
\* request, GQ transform (only with signGQ), PK Token assembly, verification,
\* cosigner request (only with a cosigner); each starts only after the one
\* before it succeeded, and no call is made after a failed one.
C5_StepOrder ==
    /\ \A i \in 1..(Len(trace) - 1) : trace[i].ok
    /\ \A i, j \in 1..Len(trace) :
         (i < j /\ StepRank(trace[i].call) > 0 /\ StepRank(trace[j].call) > 0)
         => StepRank(trace[i].call) < StepRank(trace[j].call)
    /\ \A j \in 1..Len(trace) :
         /\ trace[j].call = "RequestTokens"
              => OkBefore("NewClaims", j) /\ OkBefore("Hash", j)
         /\ trace[j].call = "SignJWT"
              => frame.signGQ /\ OkBefore("RequestTokens", j)
         /\ trace[j].call = "PktNew"
              => IF frame.signGQ THEN OkBefore("SignJWT", j)
                                 ELSE OkBefore("RequestTokens", j)
         /\ trace[j].call = "Verify" => OkBefore("PktNew", j)
         /\ trace[j].call = "CosignerRequestToken"
              => client.cosP # Nil /\ OkBefore("Verify", j)

\* an Auth call that ran all six steps
C5_Witness ==
    /\ pc = "done" /\ entry = "Auth" /\ authRet.err = "nil"
    /\ frame.signGQ /\ client.cosP # Nil
    /\ \A c \in {"NewClaims", "RequestTokens", "SignJWT", "PktNew", "Verify",
                 "CosignerRequestToken"} : Calls(c) # {}

\* C6: with a cosigner configured and an OP that is not a
\* BrowserOpenIdProvider, Auth returns an error and a nil token, and has made
\* no call at all: no RequestTokens, no PK Token, no cosigner request.
C6_FailsClosedWithoutHook ==
    (entry = "Auth" /\ client.cosP # Nil /\ ~client.Op.browser)
    => /\ pc = "done"
       /\ authRet.pkt = Nil
       /\ authRet.err \notin {"nil", "pending"}
       /\ trace = <<>>
       /\ ~hooked
       /\ frame.pkt = Nil
       /\ cosArg = Nil
       /\ \A b \in BufIds : bufs[b].state = "unallocated"

\* Auth was called with a cosigner on an OP without the HTTP hook
C6_Witness ==
    entry = "Auth" /\ client.cosP # Nil /\ ~client.Op.browser /\ pc = "done"

\* C7: OidcAuth returns a non-nil PK Token only if the client's verifier
\* accepted that exact token, with its jkt header; after a failed call it
\* returns a nil token and a non-nil error; the cosigner is asked to cosign
\* only the token that passed verification.
C7_OnlyVerifiedTokens ==
    /\ oidcRet.pkt # Nil
         => /\ oidcRet.err = "nil"
            /\ verifyArg # Nil
            /\ verifyArg.pkt = oidcRet.pkt
            /\ verifyArg.verifier = client.verifier
            /\ oidcRet.pkt.jkt # "none"
            /\ \E i \in Calls("Verify") : trace[i].ok /\ trace[i].arg = oidcRet.pkt
    /\ (oidcRet # Pending
        /\ \E i \in 1..Len(trace) :
              ~trace[i].ok /\ trace[i].call # "CosignerRequestToken")
         => oidcRet.pkt = Nil /\ oidcRet.err # "nil"
    /\ (\E i \in 1..Len(trace) :
              ~trace[i].ok /\ trace[i].call # "CosignerRequestToken")
         => pc \in {"AuthResume", "done"} /\ oidcRet # Pending
    /\ \A i \in Calls("CosignerRequestToken") :
         /\ trace[i].arg # Nil
         /\ trace[i].arg = verifyArg.pkt
         /\ \E k \in Calls("Verify") : trace[k].ok /\ trace[k].arg = trace[i].arg

\* a verified token was returned and handed to the cosigner
C7_Witness ==
    oidcRet.pkt # Nil /\ Calls("CosignerRequestToken") # {}

\* C8: on success with signGQ the PK Token is assembled from the
\* GQ-transformed token, not the OP's RS256 token (alg GQ256, no RSA
\* signature), and the verifier is given the GQOnly check; without signGQ it
\* is assembled from the OP's token and no check is passed.
C8_AssembledFromRightToken ==
    (oidcRet # Pending /\ oidcRet.err = "nil")
    => LET orig == trace[CHOOSE i \in Calls("RequestTokens") : TRUE].res
           asm == trace[CHOOSE i \in Calls("PktNew") : TRUE].arg
       IN  /\ oidcRet.pkt.op = asm
           /\ IF frame.signGQ
              THEN /\ asm = GQSignJWT(orig)
                   /\ asm # orig
                   /\ oidcRet.pkt.op.alg = "GQ256"
                   /\ oidcRet.pkt.op.sig # orig.sig
                   /\ verifyArg.checks = {"GQOnly"}
              ELSE /\ asm = orig
                   /\ oidcRet.pkt.op.alg = "RS256"
                   /\ verifyArg.checks = {}

\* a successful OidcAuth with signGQ
C8_Witness == oidcRet # Pending /\ oidcRet.err = "nil" /\ frame.signGQ


\* the iss claim of the token is a string equal to provider.Issuer()
IssMatches(pkt, provider) ==
    /\ pkt.payload # BadSegment
    /\ "iss" \in DOMAIN pkt.payload
    /\ pkt.payload.iss.t = "string"
    /\ pkt.payload.iss.v = provider.issuer

\* the public-key fetch and the signature and commitment checks
KeyAndSigCalls ==
    {"PublicKey", "IsRSA", "VerifyGQSig", "VerifyCICHash", "VerifyNonGQSig",
     "VerifyCicSig", "VerifyCosignerSignature"}

\* C9: when the iss claim differs from provider.Issuer(), or is missing or
\* not a string, VerifyPKToken returns an error, and it has neither fetched
\* an OP public key nor run any signature or commitment check.
C9_IssuerCheckedFirst ==
    (vin # Nil /\ ~IssMatches(vin.pkt, vin.provider))
    => /\ \A i \in 1..Len(vlog) : vlog[i].call \notin KeyAndSigCalls
       /\ vpc \in {"GetCicValues", "Hash", "Compact", "ExtractClaim", "done"}
       /\ vpc = "done" => vret # "nil"

\* the issuer comparison rejected a token that names another issuer
C9_Witness ==
    /\ vpc = "done"
    /\ vin.pkt.payload # BadSegment
    /\ "iss" \in DOMAIN vin.pkt.payload
    /\ vin.pkt.payload.iss = StrClaim(EvilIssuer)
    /\ \E i \in 1..Len(vlog) : vlog[i].call = "ExtractClaim" /\ vlog[i].ok
    /\ vret = "expected token to have issuer"

\* the steps of the GQ256 case, in the order the claim gives
GQSteps ==
    <<"OriginalJWTHeaders", "ParseOrigHeaders", "CheckOrigAlg", "PublicKey",
      "IsRSA", "VerifyGQSig", "VerifyCICHash">>

\* position j of the log holds a successful call of c
OkAt(c, j) == j >= 1 /\ vlog[j].call = c /\ vlog[j].ok

\* C10: for a token with OP alg GQ256, VerifyPKToken recovers the original
\* header, requires its alg to be RS256, fetches the OP public key, requires
\* an RSA key, verifies the GQ proof and verifies the commitment, in this
\* order, each only after the one before passed; the CIC signature check is
\* reached only when all passed, and no key is fetched for a non-RS256
\* original header.
C10_GQOrder ==
    (vin # Nil /\ vin.pkt.alg = "GQ256")
    => /\ \A j \in 1..Len(vlog) :
            /\ vlog[j].call = GQSteps[1] => OkAt("ProviderAlgorithm", j - 1)
            /\ \A k \in 2..Len(GQSteps) :
                 vlog[j].call = GQSteps[k] => OkAt(GQSteps[k - 1], j - 1)
            /\ vlog[j].call = "VerifyCicSig" => OkAt("VerifyCICHash", j - 1)
            /\ vlog[j].call # "VerifyNonGQSig"
       /\ \A k \in 1..Len(GQSteps) :
            Cardinality({ j \in 1..Len(vlog) : vlog[j].call = GQSteps[k] }) <= 1
       /\ vin.pkt.origHdr # "RS256"
            => \A j \in 1..Len(vlog) : vlog[j].call # "PublicKey"
       /\ vret = "nil"
            => \A k \in 1..Len(GQSteps) :
                 \E j \in 1..Len(vlog) : OkAt(GQSteps[k], j)

\* a GQ256 token that passed every step
C10_Witness ==
    vin # Nil /\ vin.pkt.alg = "GQ256" /\ vret = "nil"


\* C11: every PK Token VerifyPKToken accepts had its commitment checked: the
\* provider check (VerifyCICHash for GQ256, VerifyNonGQSig for RS256) was
\* given the hash of the CIC header of that token and succeeded.
C11_CommitmentChecked ==
    (vpc = "done" /\ vret = "nil")
    => \E j \in 1..Len(vlog) :
         /\ vlog[j].call =
              (IF vin.pkt.alg = "GQ256" THEN "VerifyCICHash" ELSE "VerifyNonGQSig")
         /\ vlog[j].ok
         /\ vlog[j].arg = CicHash(vin.pkt.cic)

\* the error VerifyPKToken gives when the issuer comparison fails; it is the
\* one error return that follows no failed call
IssuerError == "expected token to have issuer"

\* C12: no partial acceptance. A failed step is the last step and makes
\* VerifyPKToken return an error; it returns nil only when every step it ran
\* passed, the CIC signature among them, and the cosigner signature too when
\* the token has a cosigner section; that check is left out only when the
\* token has none.
C12_NoPartialAcceptance ==
    /\ \A j \in 1..Len(vlog) :
         ~vlog[j].ok => /\ j = Len(vlog)
                        /\ vpc = "done"
                        /\ vret \notin {"nil", "pending"}
    /\ vret = IssuerError
         => vpc = "done" /\ vlog[Len(vlog)].call = "ExtractClaim"
    /\ (vpc = "done" /\ vret \notin {"nil", IssuerError})
         => Len(vlog) > 0 /\ ~vlog[Len(vlog)].ok
    /\ (vpc = "done" /\ vret = "nil")
         => /\ \A j \in 1..Len(vlog) : vlog[j].ok
            /\ \E j \in 1..Len(vlog) : vlog[j].call = "VerifyCicSig"
            /\ vin.pkt.cos # "none"
                 => vlog[Len(vlog)].call = "VerifyCosignerSignature"
    /\ (vin # Nil /\ vin.pkt.cos = "none")
         => \A j \in 1..Len(vlog) : vlog[j].call # "VerifyCosignerSignature"

\* a token with a cosigner section was accepted
C12_Witness ==
    vpc = "done" /\ vret = "nil" /\ vin.pkt.cos # "none"


\* the value a call of this Auth call returned, and the argument it was given
ResultOf(call) == trace[CHOOSE i \in Calls(call) : TRUE].res
ArgOf(call) == trace[CHOOSE i \in Calls(call) : TRUE].arg

\* C13: one OidcAuth call builds exactly one CIC; the commitment given to
\* RequestTokens is the hash of that CIC, and that CIC is the one that is
\* signed and that becomes the CIC section of the PK Token.
C13_OneCic ==
    /\ Cardinality(Calls("NewClaims")) <= 1
    /\ Calls("RequestTokens") # {}
         => /\ Calls("NewClaims") # {}
            /\ ArgOf("RequestTokens") = CicHash(ResultOf("NewClaims"))
    /\ \A i \in Calls("Sign") :
         /\ trace[i].arg = ResultOf("NewClaims")
         /\ trace[i].ok => trace[i].res.cic = ResultOf("NewClaims")
    /\ \A i \in Calls("PktNew") :
         trace[i].ok
         => /\ trace[i].res.cic.cic = ResultOf("NewClaims")
            /\ CicHash(trace[i].res.cic.cic) = ArgOf("RequestTokens")
    /\ oidcRet.pkt # Nil
         => /\ oidcRet.pkt.cic.cic = ResultOf("NewClaims")
            /\ CicHash(oidcRet.pkt.cic.cic) = ArgOf("RequestTokens")

\* a PK Token was returned: its CIC was built, hashed, committed and signed
C13_Witness ==
    /\ oidcRet.pkt # Nil
    /\ Calls("NewClaims") # {} /\ Calls("RequestTokens") # {}
    /\ Calls("Sign") # {}


\* the calls that go to the OP, the key discovery, the verifier, the cosigner
RemoteCalls == {"RequestTokens", "Discover", "Verify", "CosignerRequestToken"}

\* C14: nothing is retried. In one Auth call RequestTokens, key discovery,
\* the verifier and the cosigner request are each made at most once, also
\* when one of them failed.
C14_NoRetry ==
    \A c \in RemoteCalls : Cardinality(Calls(c)) <= 1

\* an Auth call that made all four calls, the last of which failed
C14_Witness ==
    /\ pc = "done" /\ entry = "Auth"
    /\ \A c \in RemoteCalls : Calls(c) # {}
    /\ ~trace[Len(trace)].ok


\* C16: a client returned by New has a signer and an alg. An injected signer
\* and its alg are kept; without a signer a key pair is generated for the
\* given alg, ES256 when none was given. New returns an error and no client
\* when a signer comes without alg or the key generation fails.
C16_SignerAndAlg ==
    /\ NewSucceeded
         => /\ client.signer # "nil" /\ client.alg # "nil"
            /\ newArgs.signerOpt.signer # "nil"
                 => /\ client.signer = newArgs.signerOpt.signer
                    /\ client.alg = newArgs.signerOpt.alg
            /\ newArgs.signerOpt.signer = "nil"
                 => /\ client.alg = (IF newArgs.signerOpt.alg = "nil"
                                     THEN "ES256" ELSE newArgs.signerOpt.alg)
                    /\ client.signer = GeneratedKey(client.alg)
    /\ newArgs # Nil
         => /\ (client = NoClient) <=> (newErr # "nil")
            /\ (newArgs.signerOpt.signer # "nil" /\ newArgs.signerOpt.alg = "nil")
                 => client = NoClient
            /\ (newArgs.signerOpt.signer = "nil" /\ ~newArgs.genOk)
                 => client = NoClient

\* New was called without WithSigner and returned a client
C16_Witness ==
    NewSucceeded /\ ~newArgs.signerOpt.set

\* the aud claim is a JSON array of strings
IsStringArray(claim) ==
    /\ claim.t = "array"
    /\ \A k \in DOMAIN claim.elems : claim.elems[k].t = "string"

\* what the claim says extraction of a claim gives: the string, the
\* comma-joined strings for an aud array, an error otherwise
ExpectedClaim(payload, claimName) ==
    IF claimName \notin DOMAIN payload
    THEN [val |-> "", ok |-> FALSE]
    ELSE IF payload[claimName].t = "string"
    THEN [val |-> payload[claimName].v, ok |-> TRUE]
    ELSE IF claimName = "aud" /\ IsStringArray(payload.aud)
    THEN [val |-> Join([k \in DOMAIN payload.aud.elems |-> payload.aud.elems[k].v]),
          ok |-> TRUE]
    ELSE [val |-> "", ok |-> FALSE]

\* C15: extraction of a claim fails when the claim is missing or no string,
\* except aud, which may be a string or an array of strings and then gives
\* the strings joined by commas; so for ExtractClaim(token, "aud") and so
\* for the Audience of a decoded OidcClaims.
C15_AudCanonicalized ==
    /\ (xpc = "ExtractClaim" /\ xin.payload # BadSegment)
         => LET e == ExpectedClaim(xin.payload, xin.claimName)
            IN  /\ (xout.err = "nil") <=> e.ok
                /\ e.ok => xout.val = e.val
    /\ (xpc = "UnmarshalJSON" /\ xin.payload # BadSegment
        /\ ("iss" \in DOMAIN xin.payload => xin.payload.iss.t = "string"))
         => LET e == ExpectedClaim(xin.payload, "aud")
            IN  e.ok => xout.err = "nil" /\ xout.Audience = e.val

\* the fetched JWKS holds an RS256 RSA key with the requested kid
UsableKeyFetched ==
    /\ dloc.discOk
    /\ dloc.fetched
    /\ \E k \in DOMAIN dloc.jwks :
         /\ dloc.jwks[k].kid = din.kid
         /\ dloc.jwks[k].alg = "RS256"
         /\ dloc.jwks[k].kty = "RSA"

\* C17: DiscoverPublicKey returns a key only when discovery and the JWKS
\* fetch succeeded and the JWKS holds a key with the requested kid whose alg
\* is RS256 and which decodes as an RSA key; the key it returns is such a
\* key; in every other case it returns an error and no key.
C17_KeyOnlyWhenUsable ==
    dpc = "done" =>
        /\ (dret.key = Nil) <=> (dret.err # "nil")
        /\ dret.key # Nil =>
             /\ UsableKeyFetched
             /\ dret.key.kid = din.kid
             /\ dret.key.alg = "RS256"
             /\ dret.key.kty = "RSA"
        /\ ~UsableKeyFetched => dret.key = Nil /\ dret.err # "nil"

C17_Witness ==
    /\ dpc = "done"
    /\ dret.err = "nil"
    /\ dret.key # Nil
    /\ Len(dloc.jwks) = 2

\* all that the Auth call of client q, its OP and its cosigner read or write
HView(q) ==
    <<hpc[q], hcl[q], hopts[q], chans[ChanOf(q)], hook[q], inv[q], sent[q],
      hlog[q], hres[q]>>

\* client q runs the cosigner flow: a cosigner is set and its OP has the hook
CosignerFlow(q) ==
    /\ hcl[q] # Nil
    /\ hcl[q].cosP = "cosigner"
    /\ hcl[q].browser

\* C18: concurrent Auth calls of distinct clients share no mutable state: a
\* step of one client's call (of its OP, its handler, its cosigner) changes
\* nothing that another client's call reads or writes, its channel and its
\* auth options included, and no step writes a field of a constructed
\* OpkClient; so every interleaving gives each call the result it has alone.
C18_NoSharedState ==
    [][\A p \in Clients :
         /\ HStep(p) => \A q \in Clients \ {p} : HView(q)' = HView(q)
         /\ hcl[p] # Nil => hcl'[p] = hcl[p]]_vars

C18_Witness ==
    /\ \A p \in Clients :
         /\ CosignerFlow(p)
         /\ hpc[p] = "cosP.RequestToken"
         /\ chans[ChanOf(p)] = <<RedirectUri(p)>>
    /\ hopts["c1"] # hopts["c2"]

HResponded(p) == { i \in DOMAIN inv[p] : inv[p][i].state = "responded" }

\* C19: in the cosigner flow the hook is registered before RequestTokens is
\* called; a handler invocation has responded only with a URI it received
\* from the call's channel, a URI the cosigner put there, and each URI
\* serves one response; the cosigner's one send finds room in the channel of
\* capacity 1 whether or not a handler waits.
C19_HookThenRedirect ==
    \A p \in Clients :
        /\ \A k \in DOMAIN hlog[p] :
             (hlog[p][k] = "RequestTokens" /\ CosignerFlow(p))
                 => \E j \in 1..(k - 1) : hlog[p][j] = "HookHTTPSession"
        /\ \A i \in HResponded(p) :
             \E k \in DOMAIN sent[p] : inv[p][i].redirectUri = sent[p][k]
        /\ Cardinality(HResponded(p)) + Len(chans[ChanOf(p)]) = Len(sent[p])
        /\ (hpc[p] = "cosP.RequestToken" /\ sent[p] = <<>>)
             => Len(chans[ChanOf(p)]) < ChanCap

C19_Witness ==
    /\ CosignerFlow("c1")
    /\ \E i \in HResponded("c1") : inv["c1"][i].redirectUri = RedirectUri("c1")
    /\ CosignerFlow("c2")
    /\ inv["c2"] = <<>>
    /\ chans[ChanOf("c2")] = <<RedirectUri("c2")>>
    /\ hres["c2"].err = "nil"
    /\ hpc["c2"] = "done"

\* C20: no invocation of the handler is left blocked: once Auth has returned,
\* every invocation that still waits has a URI in its channel to receive.
C20_NoHandlerLeftBlocked ==
    \A p \in Clients :
        hpc[p] = "done" =>
            \A i \in DOMAIN inv[p] :
                inv[p][i].state = "waiting" => chans[inv[p][i].redirCh] # <<>>


\* C21: during OidcAuth the OP public key is discovered from the configured
\* provider only: the issuer handed to the key discovery equals
\* o.Op.Issuer(), never an issuer that only the payload of the ID token
\* names.
C21_DiscoveryFromConfiguredOp ==
    \A i \in Calls("Discover") : trace[i].arg = client.Op.issuer

====
